---- MODULE Spec2Model ----
(***************************************************************************)
(* Model of the mcp-publisher `publish` and `validate` commands            *)
(* (cmd/publisher/commands/publish.go, validate.go): one command           *)
(* invocation, from reading the descriptor file to the returned error.     *)
(*                                                                         *)
(* Text (error strings, stdout lines, URLs, messages) is a sequence of     *)
(* string tokens; the empty string is the empty sequence and substring     *)
(* containment is contiguous sub-sequence containment.                     *)
(***************************************************************************)
EXTENDS Integers, Sequences, FiniteSets, TLC

\* Longest issue list the remote validator returns in the model.
MaxIssues == 2
\* longest issue list of a validation result in the runs checked for termination
MaxLiveIssues == 1

(***************************************************************************)
(* Text helpers                                                            *)
(***************************************************************************)
\* strings.Contains
Contains(text, sub) ==
    \E i \in 0..(Len(text) - Len(sub)) : SubSeq(text, i + 1, i + Len(sub)) = sub

\* strings.HasSuffix(s, "/")
HasSuffix(text, tok) == Len(text) > 0 /\ text[Len(text)] = tok

\* strings.HasPrefix(s, x)
HasPrefix(text, pre) ==
    Len(pre) <= Len(text) /\ SubSeq(text, 1, Len(pre)) = pre

(***************************************************************************)
(* Program constants                                                       *)
(***************************************************************************)
StatusOK == 200
StatusCreated == 201
StatusUnauthorized == 401
StatusUnprocessableEntity == 422
StatusInternalServerError == 500

DefaultRegistryURL == <<"https://registry.modelcontextprotocol.io">>
CurrentSchemaURL ==
    <<"https://static.modelcontextprotocol.io/schemas/2025-12-11/server.schema.json">>
DeprecatedSchemaURL ==
    <<"https://static.modelcontextprotocol.io/schemas/2025-07-09/server.schema.json">>

migrationURL ==
    <<"https://github.com/modelcontextprotocol/registry/blob/main/docs/reference/server-json/CHANGELOG.md">>
checklistURL == migrationURL \o <<"#migration-checklist-for-publishers">>

MigrationChecklistLit == <<"Migration checklist:">>
FullChangelogLit == <<"Full changelog with examples:">>
SchemaRequiredLit == <<"$schema field is required">>
DeprecatedLit == <<"deprecated schema detected">>
PublishFailedLit == <<"publish failed">>
ValidationFailedLit == <<"validation failed">>
NotAuthenticatedLit == <<"not authenticated">>
NotFoundLit == <<"not found">>
InvalidJSONLit == <<"invalid JSON">>

(***************************************************************************)
(* Data model                                                              *)
(***************************************************************************)
\* apiv0.ServerJSON, the fields this core reads
Schemas == {CurrentSchemaURL, DeprecatedSchemaURL, <<>>}
Names == {"com.example/test-server", "com.example/test"}
Versions == {"1.0.0"}
NoServerJSON == [schema |-> <<>>, name |-> "", version |-> ""]
SubmittedServerJSON ==
    [schema : Schemas, name : {"com.example/test-server"}, version : Versions]

\* bytes of a descriptor file: JSON text of a descriptor in some layout
NoData == [layout |-> "none", json |-> NoServerJSON]
EncodeJSON(layout, sj) == [layout |-> layout, json |-> sj]
\* json.Unmarshal(serverData, &serverJSON)
Unmarshal(data) == data.json
\* json.Marshal(serverJSON): the canonical (compact) encoding
Marshal(sj) == EncodeJSON("compact", sj)

\* validators.ValidationIssue
References ==
    {"schema-field-required", "schema-version-deprecated",
     "schema-version-extraction-error", "semantic-version-range", ""}
Severities == {"error", "warning"}
Messages == {<<"name is required">>, SchemaRequiredLit}
IssueType(ref) ==
    IF ref \in {"schema-field-required", "schema-version-extraction-error"}
    THEN "schema" ELSE "semantic"
IssuePath(ref) ==
    IF ref = "semantic-version-range" THEN "version" ELSE "schema"
ValidationIssue ==
    { [type |-> IssueType(r), path |-> IssuePath(r), message |-> m,
       severity |-> s, reference |-> r] :
         r \in References, s \in Severities, m \in Messages }

SeqsUpTo(S, n) == UNION { [1..k -> S] : k \in 0..n }

\* validators.ValidationResult
ValidationResult == [valid : BOOLEAN, issues : SeqsUpTo(ValidationIssue, MaxIssues)]
NoResult == [valid |-> FALSE, issues |-> <<>>]

(***************************************************************************)
(* Environment: files on disk and the remote registry's answers            *)
(***************************************************************************)
ServerFiles ==
    { [state |-> s, data |-> NoData] : s \in {"missing", "unreadable"} }
    \cup { [state |-> "malformed", data |-> NoData] }
    \cup { [state |-> "ok", data |-> EncodeJSON("compact", sj)] :
             sj \in SubmittedServerJSON }
    \cup { [state |-> "ok", data |-> EncodeJSON("indented", sj)] :
             sj \in {d \in SubmittedServerJSON : d.schema = CurrentSchemaURL} }

\* a registry URL no request can be built from (url.Parse fails)
MalformedURL == <<":bad">>
CustomURLs == {<<"http://127.0.0.1:8080">>, <<"http://127.0.0.1:8080", "/">>}
Tokens == {"test-token"}
TokenFiles ==
    { [state |-> s, token |-> "", registry |-> <<>>] :
        s \in {"missing", "unreadable", "malformed"} }
    \cup { [state |-> "ok", token |-> t, registry |-> r] :
             t \in Tokens, r \in CustomURLs \cup {<<>>, MalformedURL} }

\* url.Parse succeeds on the request URL
URLParses(url) == Len(url) > 0 /\ url[1] # MalformedURL[1]

\* response bodies of the publish endpoint
ErrorBodies ==
    { [form |-> "object", name |-> "", version |-> "",
       raw |-> <<"{\"message\":\"Failed to publish server, invalid schema: call /validate for details\"}">>],
      [form |-> "text", name |-> "", version |-> "", raw |-> <<"Unauthorized">>] }
EchoBodies ==
    { [form |-> "server", name |-> n, version |-> v,
       raw |-> <<"{\"server\":", n, v, "}">>] : n \in Names, v \in Versions }
NoBody == [form |-> "text", name |-> "", version |-> "", raw |-> <<>>]
PublishStatuses ==
    {StatusOK, StatusCreated, StatusUnauthorized, StatusUnprocessableEntity,
     StatusInternalServerError}
PublishResponses ==
    { [kind |-> "transport", status |-> 0, readOK |-> FALSE, body |-> NoBody] }
    \cup { [kind |-> "http", status |-> s, readOK |-> FALSE, body |-> NoBody] :
             s \in PublishStatuses }
    \cup { [kind |-> "http", status |-> s, readOK |-> TRUE, body |-> b] :
             s \in PublishStatuses \ {StatusOK, StatusCreated}, b \in ErrorBodies }
    \cup { [kind |-> "http", status |-> s, readOK |-> TRUE, body |-> b] :
             s \in {StatusOK, StatusCreated}, b \in ErrorBodies \cup EchoBodies }

\* responses of the validate endpoint
ValidateStatuses ==
    {StatusOK, StatusCreated, StatusUnprocessableEntity, StatusInternalServerError}
ValidateResponses ==
    { [kind |-> "transport", status |-> 0, readOK |-> FALSE, decodable |-> FALSE,
       result |-> NoResult] }
    \cup { [kind |-> "http", status |-> s, readOK |-> FALSE, decodable |-> FALSE,
            result |-> NoResult] : s \in ValidateStatuses }
    \cup { [kind |-> "http", status |-> s, readOK |-> TRUE, decodable |-> FALSE,
            result |-> NoResult] : s \in ValidateStatuses }
    \cup { [kind |-> "http", status |-> StatusOK, readOK |-> TRUE, decodable |-> TRUE,
            result |-> r] : r \in ValidationResult }
    \cup { [kind |-> "http", status |-> s, readOK |-> TRUE, decodable |-> TRUE,
            result |-> r] : s \in ValidateStatuses \ {StatusOK},
                            r \in {x \in ValidationResult : x.issues = << >>} }

(***************************************************************************)
(* IssueFormatter (validate.go)                                            *)
(***************************************************************************)
BlankLine == << >>
LinkLines ==
    << <<"[clipboard] ", "Migration checklist:", " ">> \o checklistURL,
       <<"[book] ", "Full changelog with examples:", " ">> \o migrationURL,
       BlankLine >>
LinkText ==
    <<"[clipboard] ">> \o MigrationChecklistLit \o <<" ">> \o checklistURL
      \o <<" [book] ">> \o FullChangelogLit \o <<" ">> \o migrationURL

\* case "schema-field-required"
SchemaFieldRequiredCase(issue, serverJSON) ==
    [ msg |-> SchemaRequiredLit \o <<". Expected current schema: ">>
                \o CurrentSchemaURL \o <<". ">> \o LinkText,
      out |-> << <<"$schema field is required", ".">>,
                 BlankLine,
                 <<"Expected current schema: ">> \o CurrentSchemaURL,
                 BlankLine,
                 <<"Run 'mcp-publisher init' to create a new server.json with the correct schema, or update your existing server.json file.">>,
                 BlankLine >> \o LinkLines ]

\* variant: the aggregated message leaves out the issue's own message
SchemaVersionDeprecatedCase_NoMessage(issue, serverJSON) ==
    [ msg |-> DeprecatedLit \o <<": ">> \o serverJSON.schema
                \o <<". Expected current schema: ">> \o CurrentSchemaURL
                \o <<". Migrate to the current schema format for new servers. ">>
                \o LinkText,
      out |-> << >> ]

\* variant: a warning gets a short aggregated message without the links
SchemaVersionDeprecatedCase_WarningNoLinks(issue, serverJSON) ==
    [ msg |-> issue.message \o <<". ">> \o DeprecatedLit \o <<": ">>
                \o serverJSON.schema
                \o (IF issue.severity = "warning" THEN << >>
                    ELSE <<". Expected current schema: ">> \o CurrentSchemaURL
                           \o <<". Migrate to the current schema format for new servers. ">>
                           \o LinkText),
      out |-> << (IF issue.severity = "warning"
                  THEN <<"[warning]  ", "Deprecated schema detected", ": ">> \o serverJSON.schema
                  ELSE DeprecatedLit \o <<": ">> \o serverJSON.schema \o <<".">>),
                 BlankLine,
                 <<"Expected current schema: ">> \o CurrentSchemaURL,
                 BlankLine,
                 <<"Migrate to the current schema format for new servers.">>,
                 BlankLine >> \o LinkLines ]

\* case "schema-version-deprecated"
SchemaVersionDeprecatedCase(issue, serverJSON) ==
    [ msg |-> issue.message \o <<". ">> \o DeprecatedLit \o <<": ">>
                \o serverJSON.schema \o <<". Expected current schema: ">>
                \o CurrentSchemaURL
                \o <<". Migrate to the current schema format for new servers. ">>
                \o LinkText,
      out |-> << (IF issue.severity = "warning"
                  THEN <<"[warning]  ", "Deprecated schema detected", ": ">> \o serverJSON.schema
                  ELSE DeprecatedLit \o <<": ">> \o serverJSON.schema \o <<".">>),
                 BlankLine,
                 <<"Expected current schema: ">> \o CurrentSchemaURL,
                 BlankLine,
                 <<"Migrate to the current schema format for new servers.">>,
                 BlankLine >> \o LinkLines ]

\* case "schema-version-extraction-error"
SchemaVersionExtractionErrorCase(issue, serverJSON) ==
    [ msg |-> issue.message \o <<". ">> \o LinkText,
      out |-> << >> ]

\* the return of a case of the switch, with the index of the issue it matched
\* (matched is 0 when the loop ends without a match)
Matched(r, i) == [msg |-> r.msg, out |-> r.out, matched |-> i]

RECURSIVE SchemaScan(_, _, _)
\* the loop of printSchemaValidationErrors from issue i on: first match returns
SchemaScan(issues, i, serverJSON) ==
    IF i > Len(issues)
    THEN [msg |-> << >>, out |-> << >>, matched |-> 0]
    ELSE CASE issues[i].reference = "schema-field-required" ->
                Matched(SchemaFieldRequiredCase(issues[i], serverJSON), i)
           [] issues[i].reference = "schema-version-deprecated" ->
                Matched(SchemaVersionDeprecatedCase(issues[i], serverJSON), i)
           [] issues[i].reference = "schema-version-extraction-error" ->
                Matched(SchemaVersionExtractionErrorCase(issues[i], serverJSON), i)
           [] OTHER -> SchemaScan(issues, i + 1, serverJSON)

printSchemaValidationErrors(result, serverJSON) ==
    SchemaScan(result.issues, 1, serverJSON)

\* variant: the second pass skips by issue type
SkippedInList_ByType(issue) == issue.type = "schema"

\* variant: the second pass skips nothing
SkippedInList_None(issue) == FALSE

\* the second pass skips these references
SkippedInList(issue) ==
    issue.reference = "schema-field-required"
      \/ issue.reference = "schema-version-deprecated"

\* variant: the entries are numbered from 0
IssueEntry_ZeroBased(issueNum, issue) ==
    << <<ToString(issueNum - 1), ". [", issue.severity, "] ", issue.path,
         " (", issue.type, ")">>,
       <<"   ">> \o issue.message >>
    \o (IF issue.reference # ""
        THEN << <<"   Reference: ", issue.reference>> >> ELSE << >>)
    \o << BlankLine >>

\* the lines of one numbered entry
IssueEntry(issueNum, issue) ==
    << <<ToString(issueNum), ". [", issue.severity, "] ", issue.path,
         " (", issue.type, ")">>,
       <<"   ">> \o issue.message >>
    \o (IF issue.reference # ""
        THEN << <<"   Reference: ", issue.reference>> >> ELSE << >>)
    \o << BlankLine >>

RECURSIVE IssueList(_, _, _)
\* the loop of printValidationIssues from issue i on, next number issueNum:
\* the entries printed, each with the index idx of its issue, its number num
\* and its lines
IssueList(issues, i, issueNum) ==
    IF i > Len(issues) THEN << >>
    ELSE IF SkippedInList(issues[i])
         THEN IssueList(issues, i + 1, issueNum)
         ELSE << [idx |-> i, num |-> issueNum,
                  lines |-> IssueEntry(issueNum, issues[i])] >>
                \o IssueList(issues, i + 1, issueNum + 1)

RECURSIVE EntryLines(_)
\* the lines of the entries, in the order printed
EntryLines(entries) ==
    IF entries = << >> THEN << >>
    ELSE Head(entries).lines \o EntryLines(Tail(entries))

\* the header of the numbered list
ListHeader(result) ==
    << <<"[x] Validation failed with ",
         ToString(Len(result.issues)), " issue(s):">>,
       BlankLine >>

\* variant: the numbered list is printed for valid results too
printValidationIssues_ListWhenValid(result, serverJSON) ==
    LET first == printSchemaValidationErrors(result, serverJSON)
        entries == IssueList(result.issues, 1, 1) IN
    [ msg |-> first.msg,
      out |-> first.out \o ListHeader(result) \o EntryLines(entries),
      matched |-> first.matched,
      list |-> TRUE, listed |-> entries ]

\* printValidationIssues: msg is the returned string, out the lines printed;
\* matched is the index of the issue the first pass rendered (0: none), list
\* tells whether the second pass ran and listed holds its entries
printValidationIssues(result, serverJSON) ==
    LET first == printSchemaValidationErrors(result, serverJSON) IN
    IF result.valid
    THEN [ msg |-> first.msg, out |-> first.out, matched |-> first.matched,
           list |-> FALSE, listed |-> << >> ]
    ELSE LET entries == IssueList(result.issues, 1, 1) IN
         [ msg |-> first.msg,
           out |-> first.out \o ListHeader(result) \o EntryLines(entries),
           matched |-> first.matched,
           list |-> TRUE, listed |-> entries ]

(***************************************************************************)
(* RegistryClient: request construction and response decoding             *)
(***************************************************************************)
\* variant: a "/" is appended to every base
NormalizeURL_AlwaysAppend(url) == url \o <<"/">>

\* if !strings.HasSuffix(registryURL, "/") { registryURL += "/" }
NormalizeURL(url) == IF HasSuffix(url, "/") THEN url ELSE url \o <<"/">>
PublishURL(url) == NormalizeURL(url) \o <<"v0/publish">>
ValidateURL(url) == NormalizeURL(url) \o <<"v0/validate">>

NoAuth == << >>
\* the request publishToRegistry hands to client.Do; serverData was parsed by
\* the caller, so the json.Unmarshal / json.Marshal of the same bytes succeed
PublishRequest(url, data, tok) ==
    [ endpoint |-> "publish", url |-> PublishURL(url),
      body |-> Marshal(Unmarshal(data)),
      contentType |-> "application/json",
      authorization |-> <<"Bearer ", tok>> ]
\* variant: the validate call sends the file's bytes without re-encoding them
ValidateRequest_RawBytes(url, data) ==
    [ endpoint |-> "validate", url |-> ValidateURL(url),
      body |-> data,
      contentType |-> "application/json",
      authorization |-> NoAuth ]

\* variant: the validate call sends the stored token as well
ValidateRequest_WithToken(url, data) ==
    [ endpoint |-> "validate", url |-> ValidateURL(url),
      body |-> Marshal(Unmarshal(data)),
      contentType |-> "application/json",
      authorization |-> <<"Bearer ", "test-token">> ]

\* variant: the validate call posts to the publish endpoint
ValidateRequest_ToPublish(url, data) ==
    [ endpoint |-> "publish", url |-> PublishURL(url),
      body |-> Marshal(Unmarshal(data)),
      contentType |-> "application/json",
      authorization |-> NoAuth ]

\* the request validateViaAPI hands to client.Do
ValidateRequest(url, data) ==
    [ endpoint |-> "validate", url |-> ValidateURL(url),
      body |-> Marshal(Unmarshal(data)),
      contentType |-> "application/json",
      authorization |-> NoAuth ]

\* variant: a client that sends every request a second time
Send_WithRetry(reqs, req) == Append(Append(reqs, req), req)

\* client.Do(req): one network call, no retry
Send(reqs, req) == Append(reqs, req)

CreateRequestError == <<"error creating request", ": ", "parse: missing protocol scheme">>
SendRequestError == <<"error sending request", ": ", "connection refused">>
ReadResponseError == <<"error reading response", ": ", "unexpected EOF">>
\* variant: the status error leaves out the response body
StatusError_NoBody(status, body) ==
    <<"server returned status ", ToString(status)>>

StatusError(status, body) ==
    <<"server returned status ", ToString(status), ": ">> \o body.raw
DecodeError == <<"invalid character">>

\* variant: only server errors are rejections
IsSuccessStatus_Below500(status) == status < 500

\* resp.StatusCode == http.StatusCreated || resp.StatusCode == http.StatusOK
IsSuccessStatus(status) == status = StatusCreated \/ status = StatusOK

\* what publishToRegistry returns for a response: (response, statusCode, err)
PublishOutcome(resp) ==
    IF resp.kind = "transport"
    THEN [ok |-> FALSE, status |-> 0, err |-> SendRequestError, server |-> NoServerJSON]
    ELSE IF ~resp.readOK
    THEN [ok |-> FALSE, status |-> resp.status, err |-> ReadResponseError,
          server |-> NoServerJSON]
    ELSE IF ~IsSuccessStatus(resp.status)
    THEN [ok |-> FALSE, status |-> resp.status,
          err |-> StatusError(resp.status, resp.body), server |-> NoServerJSON]
    ELSE IF resp.body.form = "text"
    THEN [ok |-> FALSE, status |-> resp.status, err |-> DecodeError,
          server |-> NoServerJSON]
    ELSE [ok |-> TRUE, status |-> resp.status, err |-> << >>,
          server |-> [schema |-> << >>, name |-> resp.body.name,
                      version |-> resp.body.version]]

\* variant: every 2xx status is a success
IsValidateSuccessStatus_Any2xx(status) == status >= 200 /\ status < 300

\* resp.StatusCode != http.StatusOK is an error
IsValidateSuccessStatus(status) == status = StatusOK

RawResult == [form |-> "text", name |-> "", version |-> "", raw |-> <<"{\"valid\":...}">>]
\* what validateViaAPI returns for a response: (result, err)
ValidateOutcome(resp) ==
    IF resp.kind = "transport"
    THEN [ok |-> FALSE, err |-> SendRequestError, result |-> NoResult]
    ELSE IF ~resp.readOK
    THEN [ok |-> FALSE, err |-> ReadResponseError, result |-> NoResult]
    ELSE IF ~IsValidateSuccessStatus(resp.status)
    THEN [ok |-> FALSE, err |-> StatusError(resp.status, RawResult),
          result |-> NoResult]
    ELSE IF ~resp.decodable
    THEN [ok |-> FALSE, err |-> <<"error parsing response", ": ">> \o DecodeError,
          result |-> NoResult]
    ELSE [ok |-> TRUE, err |-> << >>, result |-> resp.result]

(***************************************************************************)
(* State of one command invocation                                         *)
(***************************************************************************)
VARIABLES
    cmd,            \* "publish" or "validate": the command being run
    helpArg,        \* args contain --help or -h
    serverFile,     \* the descriptor file on disk
    homeDirOK,      \* os.UserHomeDir succeeds
    tokenFile,      \* the token store on disk
    pc,             \* position of the command
    serverData,     \* bytes read from the descriptor file
    serverJSON,     \* the parsed descriptor
    token,          \* tokenInfo["token"]
    registryURL,    \* the resolved registry base URL
    requests,       \* requests handed to client.Do, in order
    outstanding,    \* endpoints of the requests awaiting their response
    publishResponse,  \* the response the publish request received
    validateResponse, \* the response the validate request received
    publishResult,  \* what publishToRegistry returned
    validateResult, \* what validateViaAPI returned
    stdout,         \* lines written to standard output
    formatted,      \* what printValidationIssues did with the result
    exit,           \* "running", "success" (nil error) or "failure"
    err             \* text of the returned error

env == <<cmd, helpArg, serverFile, homeDirOK, tokenFile>>
vars == <<cmd, helpArg, serverFile, homeDirOK, tokenFile, pc, serverData,
          serverJSON, token, registryURL, requests, outstanding,
          publishResponse, validateResponse, publishResult, validateResult,
          formatted, stdout, exit, err>>

NoPublishResult == [ok |-> FALSE, status |-> -1, err |-> << >>, server |-> NoServerJSON]
NoValidateResult == [ok |-> FALSE, err |-> << >>, result |-> NoResult]

NoPublishResponse == [kind |-> "none", status |-> -1, readOK |-> FALSE, body |-> NoBody]
NoValidateResponse ==
    [kind |-> "none", status |-> -1, readOK |-> FALSE, decodable |-> FALSE,
     result |-> NoResult]

\* printValidationIssues was not called
NoFormatted ==
    [msg |-> << >>, out |-> << >>, matched |-> 0, list |-> FALSE, listed |-> << >>]

Init ==
    /\ cmd \in {"publish", "validate"}
    /\ helpArg \in BOOLEAN
    /\ (cmd = "publish" => helpArg = FALSE)
    /\ serverFile \in ServerFiles
    /\ homeDirOK \in BOOLEAN
    /\ tokenFile \in TokenFiles
    /\ pc = "start"
    /\ serverData = NoData
    /\ serverJSON = NoServerJSON
    /\ token = ""
    /\ registryURL = << >>
    /\ requests = << >>
    /\ outstanding = {}
    /\ publishResponse = NoPublishResponse
    /\ validateResponse = NoValidateResponse
    /\ publishResult = NoPublishResult
    /\ validateResult = NoValidateResult
    /\ formatted = NoFormatted
    /\ stdout = << >>
    /\ exit = "running"
    /\ err = << >>

\* return from the command: nil error
ReturnNil ==
    /\ pc' = "done"
    /\ exit' = "success"
    /\ err' = << >>

\* variant: the error path blocks instead of returning
ReturnError_Blocks(e) ==
    /\ pc' = "blocked"
    /\ exit' = "running"
    /\ err' = e

\* return from the command with an error
ReturnError(e) ==
    /\ pc' = "done"
    /\ exit' = "failure"
    /\ err' = e

\* fmt.Errorf("publish failed: %w", err)
PublishFailed(e) == PublishFailedLit \o <<": ">> \o e

\* variant: an empty registry entry is used as it is
ResolveRegistryURL_NoDefault(registry) == registry

\* registryURL := tokenInfo["registry"]; if registryURL == "" { DefaultRegistryURL }
ResolveRegistryURL(registry) ==
    IF registry = << >> THEN DefaultRegistryURL ELSE registry

(***************************************************************************)
(* PublishCommand (publish.go)                                             *)
(***************************************************************************)
\* the input error of PublishCommand for a descriptor file: os.ReadFile fails
\* or json.Unmarshal fails; the empty text when there is none
PublishServerFileError(file) ==
    CASE file.state = "missing" ->
           <<"server.json ", "not found", ". Run 'mcp-publisher init' to create one">>
      [] file.state = "unreadable" ->
           <<"failed to read server.json", ": ", "permission denied">>
      [] file.state = "malformed" -> <<"invalid server.json", ": ">> \o DecodeError
      [] OTHER -> << >>

\* read and parse server.json
PublishReadServerFile ==
    /\ cmd = "publish" /\ pc = "start"
    /\ IF PublishServerFileError(serverFile) # << >>
       THEN /\ ReturnError(PublishServerFileError(serverFile))
            /\ UNCHANGED <<serverData, serverJSON>>
       ELSE /\ serverData' = serverFile.data
            /\ serverJSON' = Unmarshal(serverFile.data)
            /\ pc' = "load_token"
            /\ UNCHANGED <<exit, err>>
    /\ UNCHANGED <<env, formatted, token, registryURL, requests, outstanding, publishResponse,
                   validateResponse, publishResult, validateResult, stdout>>

\* variant: a missing token store is not an error
TokenLoadError_MissingIgnored ==
    CASE ~homeDirOK -> <<"failed to get home directory", ": ", "$HOME is not defined">>
      [] tokenFile.state = "unreadable" ->
           <<"failed to read token", ": ", "permission denied">>
      [] tokenFile.state = "malformed" -> <<"invalid token data", ": ">> \o DecodeError
      [] OTHER -> << >>

\* the error PublishCommand returns when the token cannot be loaded
TokenLoadError ==
    CASE ~homeDirOK -> <<"failed to get home directory", ": ", "$HOME is not defined">>
      [] tokenFile.state = "missing" ->
           NotAuthenticatedLit \o <<". Run 'mcp-publisher login <method>' first">>
      [] tokenFile.state = "unreadable" ->
           <<"failed to read token", ": ", "permission denied">>
      [] tokenFile.state = "malformed" -> <<"invalid token data", ": ">> \o DecodeError
      [] OTHER -> << >>

\* load the saved token and resolve the registry URL
PublishLoadToken ==
    /\ cmd = "publish" /\ pc = "load_token"
    /\ IF TokenLoadError # << >>
       THEN /\ ReturnError(TokenLoadError)
            /\ UNCHANGED <<token, registryURL>>
       ELSE /\ token' = tokenFile.token
            /\ registryURL' = ResolveRegistryURL(tokenFile.registry)
            /\ pc' = "publish_call"
            /\ UNCHANGED <<exit, err>>
    /\ UNCHANGED <<env, formatted, serverData, serverJSON, requests, outstanding,
                   publishResponse, validateResponse, publishResult,
                   validateResult, stdout>>

\* publishToRegistry up to client.Do: build the request and send it
PublishSend ==
    /\ cmd = "publish" /\ pc = "publish_call"
    /\ stdout' = Append(stdout, <<"Publishing to ">> \o registryURL \o <<"...">>)
    /\ IF ~URLParses(PublishURL(registryURL))
       THEN \* (nil, 0, "error creating request"): status 0 is not 422
            /\ publishResult' = [ok |-> FALSE, status |-> 0,
                                 err |-> CreateRequestError, server |-> NoServerJSON]
            /\ ReturnError(PublishFailed(CreateRequestError))
            /\ UNCHANGED <<requests, outstanding>>
       ELSE /\ requests' = Send(requests, PublishRequest(registryURL, serverData, token))
            /\ outstanding' = outstanding \cup {"publish"}
            /\ pc' = "publish_wait"
            /\ UNCHANGED <<publishResult, exit, err>>
    /\ UNCHANGED <<env, formatted, serverData, serverJSON, token, registryURL,
                   publishResponse, validateResponse, validateResult>>

\* variant: every rejection status triggers the fallback
FallbackTriggered_AnyRejection(statusCode) == statusCode >= 400

\* if statusCode == http.StatusUnprocessableEntity
FallbackTriggered(statusCode) == statusCode = StatusUnprocessableEntity

\* variant: the success report leaves out the version
PublishedLines_NameOnly(server) ==
    << <<"Successfully published">>, <<"Server ", server.name>> >>

\* the lines PublishCommand prints on success, from the decoded response
PublishedLines(server) ==
    << <<"Successfully published">>,
       <<"Server ", server.name, " version ", server.version>> >>

\* the response to the publish request arrives; PublishCommand lines 68-73, 94-101
PublishRecv ==
    /\ cmd = "publish" /\ pc = "publish_wait"
    /\ \E resp \in PublishResponses :
         LET o == PublishOutcome(resp) IN
         /\ publishResponse' = resp
         /\ publishResult' = o
         /\ outstanding' = outstanding \ {"publish"}
         /\ IF o.ok
            THEN /\ stdout' = stdout \o PublishedLines(o.server)
                 /\ ReturnNil
            ELSE IF FallbackTriggered(o.status)
            THEN /\ stdout' = stdout \o
                       << <<"Validation failed. Checking detailed validation errors...">>,
                          BlankLine >>
                 /\ pc' = "validate_call"
                 /\ UNCHANGED <<exit, err>>
            ELSE /\ ReturnError(PublishFailed(o.err))
                 /\ UNCHANGED stdout
    /\ UNCHANGED <<env, formatted, serverData, serverJSON, token, registryURL, requests,
                   validateResponse, validateResult>>

\* variant: a failed fallback reports the validate error
PublishAfterValidate_ValidateErrorWins(v, publishErr, sj) ==
    IF ~v.ok
    THEN [err |-> ValidationFailedLit \o <<": ">> \o v.err, out |-> << >>]
    ELSE LET f == printValidationIssues(v.result, sj) IN
         IF ~v.result.valid
         THEN IF f.msg # << >>
              THEN [err |-> f.msg, out |-> f.out]
              ELSE [err |-> ValidationFailedLit, out |-> f.out]
         ELSE [err |-> PublishFailed(publishErr), out |-> f.out]

\* variant: an invalid result without a schema message reports the publish error
PublishAfterValidate_NoGenericError(v, publishErr, sj) ==
    IF ~v.ok
    THEN [err |-> PublishFailed(publishErr), out |-> << >>]
    ELSE LET f == printValidationIssues(v.result, sj) IN
         IF ~v.result.valid /\ f.msg # << >>
         THEN [err |-> f.msg, out |-> f.out]
         ELSE [err |-> PublishFailed(publishErr), out |-> f.out]

\* PublishCommand lines 77-95: what the command returns once validateViaAPI
\* has returned v, the publish call having failed with publishErr
PublishAfterValidate(v, publishErr, sj) ==
    IF ~v.ok
    THEN [err |-> PublishFailed(publishErr), out |-> << >>]
    ELSE LET f == printValidationIssues(v.result, sj) IN
         IF ~v.result.valid
         THEN IF f.msg # << >>
              THEN [err |-> f.msg, out |-> f.out]
              ELSE [err |-> ValidationFailedLit, out |-> f.out]
         ELSE [err |-> PublishFailed(publishErr), out |-> f.out]

(***************************************************************************)
(* ValidateCommand (validate.go)                                           *)
(***************************************************************************)
UsageLines ==
    << <<"Usage: mcp-publisher validate [file]">>, BlankLine,
       <<"Validate a server.json file without publishing.">>, BlankLine,
       <<"Arguments:">>,
       <<"  file    Path to server.json file (default: ./server.json)">>, BlankLine,
       <<"The validate command performs exhaustive validation, reporting all issues at once.">>,
       <<"It validates JSON syntax, schema compliance, and semantic rules.">> >>

\* parse arguments; --help / -h prints the usage and returns nil
ValidateParseArgs ==
    /\ cmd = "validate" /\ pc = "start"
    /\ IF helpArg
       THEN /\ stdout' = stdout \o UsageLines
            /\ ReturnNil
       ELSE /\ pc' = "read_file"
            /\ UNCHANGED <<stdout, exit, err>>
    /\ UNCHANGED <<env, formatted, serverData, serverJSON, token, registryURL, requests,
                   outstanding, publishResponse, validateResponse, publishResult,
                   validateResult>>

\* variant: the descriptor is not parsed before the call
ValidateServerFileError_SkipParse(file) ==
    CASE file.state = "missing" ->
           <<"server.json ", "not found", ", please check the file path">>
      [] file.state = "unreadable" ->
           <<"failed to read ", "server.json", ": ", "permission denied">>
      [] OTHER -> << >>

\* the input error of ValidateCommand for a descriptor file: os.ReadFile fails
\* or json.Unmarshal fails; the empty text when there is none
ValidateServerFileError(file) ==
    CASE file.state = "missing" ->
           <<"server.json ", "not found", ", please check the file path">>
      [] file.state = "unreadable" ->
           <<"failed to read ", "server.json", ": ", "permission denied">>
      [] file.state = "malformed" -> InvalidJSONLit \o <<": ">> \o DecodeError
      [] OTHER -> << >>

\* read and parse the server file
ValidateReadServerFile ==
    /\ cmd = "validate" /\ pc = "read_file"
    /\ IF ValidateServerFileError(serverFile) # << >>
       THEN /\ ReturnError(ValidateServerFileError(serverFile))
            /\ UNCHANGED <<serverData, serverJSON>>
       ELSE /\ serverData' = serverFile.data
            /\ serverJSON' = Unmarshal(serverFile.data)
            /\ pc' = "resolve_registry"
            /\ UNCHANGED <<exit, err>>
    /\ UNCHANGED <<env, formatted, token, registryURL, requests, outstanding, publishResponse,
                   validateResponse, publishResult, validateResult, stdout>>

\* variant: the registry entry of the token store is used even when empty
ValidateRegistryURL_NoDefault == tokenFile.registry

\* the registry URL ValidateCommand uses: the token store's when it can be
\* read and parsed and records one, the default otherwise
ValidateRegistryURL ==
    IF tokenFile.state = "ok" /\ tokenFile.registry # << >>
    THEN tokenFile.registry ELSE DefaultRegistryURL

ValidateResolveRegistry ==
    /\ cmd = "validate" /\ pc = "resolve_registry"
    /\ IF ~homeDirOK
       THEN /\ ReturnError(<<"failed to get home directory", ": ", "$HOME is not defined">>)
            /\ UNCHANGED registryURL
       ELSE /\ registryURL' = ValidateRegistryURL
            /\ pc' = "validate_call"
            /\ UNCHANGED <<exit, err>>
    /\ UNCHANGED <<env, formatted, serverData, serverJSON, token, requests, outstanding,
                   publishResponse, validateResponse, publishResult,
                   validateResult, stdout>>

\* variant: success requires an empty issue list
ValidateAfterValidate_EmptyIssuesOnly(v, sj) ==
    IF ~v.ok
    THEN [ok |-> FALSE, err |-> ValidationFailedLit \o <<": ">> \o v.err, out |-> << >>]
    ELSE LET f == printValidationIssues(v.result, sj) IN
         IF v.result.valid /\ v.result.issues = << >>
         THEN [ok |-> TRUE, err |-> << >>,
               out |-> f.out \o << <<"server.json is valid">> >>]
         ELSE IF f.msg # << >>
              THEN [ok |-> FALSE, err |-> f.msg, out |-> f.out]
              ELSE [ok |-> FALSE, err |-> ValidationFailedLit, out |-> f.out]

\* ValidateCommand lines 174-191: what the command returns once
\* validateViaAPI has returned v
ValidateAfterValidate(v, sj) ==
    IF ~v.ok
    THEN [ok |-> FALSE, err |-> ValidationFailedLit \o <<": ">> \o v.err, out |-> << >>]
    ELSE LET f == printValidationIssues(v.result, sj) IN
         IF v.result.valid
         THEN [ok |-> TRUE, err |-> << >>,
               out |-> f.out \o << <<"server.json is valid">> >>]
         ELSE IF f.msg # << >>
              THEN [ok |-> FALSE, err |-> f.msg, out |-> f.out]
              ELSE [ok |-> FALSE, err |-> ValidationFailedLit, out |-> f.out]

(***************************************************************************)
(* validateViaAPI, called by both commands                                 *)
(***************************************************************************)
\* the caller's code after validateViaAPI returned v
AfterValidate(v, out) ==
    /\ formatted' = IF v.ok THEN printValidationIssues(v.result, serverJSON)
                    ELSE NoFormatted
    /\ IF cmd = "publish"
       THEN LET r == PublishAfterValidate(v, publishResult.err, serverJSON) IN
            /\ stdout' = out \o r.out
            /\ ReturnError(r.err)
       ELSE LET r == ValidateAfterValidate(v, serverJSON) IN
            /\ stdout' = out \o r.out
            /\ IF r.ok THEN ReturnNil ELSE ReturnError(r.err)

\* lines printed by ValidateCommand before the call
ValidatingLine ==
    IF cmd = "validate"
    THEN << <<"Validating against ">> \o registryURL \o <<"...">> >>
    ELSE << >>

\* validateViaAPI up to client.Do: build the request and send it
ValidateSend ==
    /\ pc = "validate_call"
    /\ IF ~URLParses(ValidateURL(registryURL))
       THEN LET v == [ok |-> FALSE, err |-> CreateRequestError, result |-> NoResult] IN
            /\ validateResult' = v
            /\ AfterValidate(v, stdout \o ValidatingLine)
            /\ UNCHANGED <<requests, outstanding>>
       ELSE /\ requests' = Send(requests, ValidateRequest(registryURL, serverData))
            /\ outstanding' = outstanding \cup {"validate"}
            /\ pc' = "validate_wait"
            /\ stdout' = stdout \o ValidatingLine
            /\ UNCHANGED <<validateResult, formatted, exit, err>>
    /\ UNCHANGED <<env, serverData, serverJSON, token, registryURL,
                   publishResponse, validateResponse, publishResult>>

\* the response to the validate request arrives, one of responses; the caller
\* finishes
ValidateRecvFrom(responses) ==
    /\ pc = "validate_wait"
    /\ \E resp \in responses :
         LET v == ValidateOutcome(resp) IN
         /\ validateResponse' = resp
         /\ validateResult' = v
         /\ outstanding' = outstanding \ {"validate"}
         /\ AfterValidate(v, stdout)
    /\ UNCHANGED <<env, serverData, serverJSON, token, registryURL, requests,
                   publishResponse, publishResult>>

ValidateRecv == ValidateRecvFrom(ValidateResponses)

Next ==
    \/ PublishReadServerFile
    \/ PublishLoadToken
    \/ PublishSend
    \/ PublishRecv
    \/ ValidateParseArgs
    \/ ValidateReadServerFile
    \/ ValidateResolveRegistry
    \/ ValidateSend
    \/ ValidateRecv

Spec == Init /\ [][Next]_vars

\* the validate responses whose result has at most MaxLiveIssues issues
LiveValidateResponses ==
    { r \in ValidateResponses : Len(r.result.issues) <= MaxLiveIssues }

NextLive ==
    \/ PublishReadServerFile
    \/ PublishLoadToken
    \/ PublishSend
    \/ PublishRecv
    \/ ValidateParseArgs
    \/ ValidateReadServerFile
    \/ ValidateResolveRegistry
    \/ ValidateSend
    \/ ValidateRecvFrom(LiveValidateResponses)

\* the command runs to its end: every step of the synchronous code is taken
\* and every request that was sent is answered
SpecLive == Init /\ [][NextLive]_vars /\ WF_vars(NextLive)

(***************************************************************************)
(* The formatter alone: printValidationIssues applied to any result, with  *)
(* the type, path and message of an issue varying independently of its     *)
(* reference                                                               *)
(***************************************************************************)
IssueTypes == {"schema", "semantic"}
IssuePaths == {"schema", "version"}
AnyValidationIssue ==
    [type : IssueTypes, path : IssuePaths, message : Messages,
     severity : Severities, reference : References]
AnyValidationResult ==
    [valid : BOOLEAN, issues : SeqsUpTo(AnyValidationIssue, MaxIssues)]

\* a descriptor with a deprecated schema has been read and a result decoded
InitFormat ==
    /\ cmd = "format"
    /\ helpArg = FALSE
    /\ serverFile \in { f \in ServerFiles :
                          f.state = "ok" /\ Unmarshal(f.data).schema = DeprecatedSchemaURL }
    /\ homeDirOK = TRUE
    /\ tokenFile \in { t \in TokenFiles : t.state = "missing" }
    /\ pc = "format_call"
    /\ serverData = serverFile.data
    /\ serverJSON = Unmarshal(serverFile.data)
    /\ token = ""
    /\ registryURL = << >>
    /\ requests = << >>
    /\ outstanding = {}
    /\ publishResponse = NoPublishResponse
    /\ validateResponse = NoValidateResponse
    /\ publishResult = NoPublishResult
    /\ \E r \in AnyValidationResult :
         validateResult = [ok |-> TRUE, err |-> << >>, result |-> r]
    /\ formatted = NoFormatted
    /\ stdout = << >>
    /\ exit = "running"
    /\ err = << >>

\* the call printValidationIssues(result, serverJSON)
FormatIssues ==
    /\ cmd = "format" /\ pc = "format_call"
    /\ formatted' = printValidationIssues(validateResult.result, serverJSON)
    /\ stdout' = stdout \o formatted'.out
    /\ pc' = "done"
    /\ UNCHANGED <<env, serverData, serverJSON, token, registryURL, requests,
                   outstanding, publishResponse, validateResponse, publishResult,
                   validateResult, exit, err>>

NextFormat == FormatIssues

SpecFormat == InitFormat /\ [][NextFormat]_vars

(***************************************************************************)
(* validateViaAPI called twice with the same descriptor bytes, against a   *)
(* remote validator that answers the same request the same way             *)
(***************************************************************************)
InitTwice ==
    /\ cmd = "validate_twice"
    /\ helpArg = FALSE
    /\ serverFile \in { f \in ServerFiles : f.state = "ok" }
    /\ homeDirOK = TRUE
    /\ tokenFile \in { t \in TokenFiles : t.state = "missing" }
    /\ pc = "first_call"
    /\ serverData = serverFile.data
    /\ serverJSON = Unmarshal(serverFile.data)
    /\ token = ""
    /\ registryURL \in {DefaultRegistryURL, MalformedURL} \cup CustomURLs
    /\ requests = << >>
    /\ outstanding = {}
    /\ publishResponse = NoPublishResponse
    /\ validateResponse = NoValidateResponse
    /\ publishResult = NoPublishResult
    /\ validateResult = NoValidateResult
    /\ formatted = NoFormatted
    /\ stdout = << >>
    /\ exit = "running"
    /\ err = << >>

\* variant: the call re-encodes the caller's bytes in place
TwiceSend_MutatesData ==
    /\ cmd = "validate_twice" /\ pc \in {"first_call", "second_call"}
    /\ serverData' = Marshal(Unmarshal(serverData))
    /\ IF ~URLParses(ValidateURL(registryURL))
       THEN /\ validateResult' =
                 [ok |-> FALSE, err |-> CreateRequestError, result |-> NoResult]
            /\ pc' = IF pc = "first_call" THEN "second_call" ELSE "done"
            /\ UNCHANGED <<requests, outstanding>>
       ELSE /\ requests' = Send(requests, ValidateRequest(registryURL, serverData))
            /\ outstanding' = outstanding \cup {"validate"}
            /\ pc' = IF pc = "first_call" THEN "first_wait" ELSE "second_wait"
            /\ UNCHANGED validateResult
    /\ UNCHANGED <<env, formatted, serverJSON, token, registryURL,
                   publishResponse, validateResponse, publishResult, stdout,
                   exit, err>>

\* validateViaAPI(registryURL, serverData) up to client.Do, first or second call
TwiceSend ==
    /\ cmd = "validate_twice" /\ pc \in {"first_call", "second_call"}
    /\ IF ~URLParses(ValidateURL(registryURL))
       THEN /\ validateResult' =
                 [ok |-> FALSE, err |-> CreateRequestError, result |-> NoResult]
            /\ pc' = IF pc = "first_call" THEN "second_call" ELSE "done"
            /\ UNCHANGED <<requests, outstanding>>
       ELSE /\ requests' = Send(requests, ValidateRequest(registryURL, serverData))
            /\ outstanding' = outstanding \cup {"validate"}
            /\ pc' = IF pc = "first_call" THEN "first_wait" ELSE "second_wait"
            /\ UNCHANGED validateResult
    /\ UNCHANGED <<env, formatted, serverData, serverJSON, token, registryURL,
                   publishResponse, validateResponse, publishResult, stdout,
                   exit, err>>

\* the remote side answers; a request equal to the first one gets the answer
\* the first one got
TwiceRecv ==
    /\ cmd = "validate_twice" /\ pc \in {"first_wait", "second_wait"}
    /\ \E resp \in ValidateResponses :
         /\ (pc = "second_wait" /\ requests[2] = requests[1])
              => resp = validateResponse
         /\ validateResponse' = resp
         /\ validateResult' = ValidateOutcome(resp)
    /\ outstanding' = outstanding \ {"validate"}
    /\ pc' = IF pc = "first_wait" THEN "second_call" ELSE "done"
    /\ UNCHANGED <<env, formatted, serverData, serverJSON, token, registryURL,
                   requests, publishResponse, publishResult, stdout, exit, err>>

NextTwice ==
    \/ TwiceSend
    \/ TwiceRecv

SpecTwice == InitTwice /\ [][NextTwice]_vars

(***************************************************************************)
(* The validate endpoint of the registry (RegisterValidateEndpoint)        *)
(***************************************************************************)
\* path prefixes the endpoint is registered under
PathPrefixes == {<<"/v0">>, <<"/v0.1">>}
\* versions of the descriptors posted by TestValidateEndpoint
PostedVersions == {"1.0.0", "^1.0.0", "latest"}
\* well-formed request bodies: descriptors that decode into apiv0.ServerJSON
PostedServerJSON == [schema : Schemas, name : Names, version : PostedVersions]

\* validators.ValidateServerJSON(&input.Body, validators.ValidationAll): the
\* results the rule engine may return for a descriptor; its rules are outside
\* this core, only the shape of its result is known
ValidateServerJSON(body) == ValidationResult

\* variant: an invalid result is answered with status 422
HandlerStatus_RejectInvalid(result) ==
    IF result.valid THEN StatusOK ELSE StatusUnprocessableEntity

\* the handler returns the response with a nil error: status 200
HandlerStatus(result) == StatusOK

\* a well-formed descriptor has been posted to <prefix>/validate
InitServer ==
    /\ cmd = "serve"
    /\ helpArg = FALSE
    /\ serverFile \in { f \in ServerFiles : f.state = "missing" }
    /\ homeDirOK = TRUE
    /\ tokenFile \in { t \in TokenFiles : t.state = "missing" }
    /\ pc = "handle"
    /\ serverData = NoData
    /\ serverJSON = NoServerJSON
    /\ token = ""
    /\ registryURL = << >>
    /\ \E prefix \in PathPrefixes, sj \in PostedServerJSON :
         requests = << [ endpoint |-> "validate",
                         url |-> prefix \o <<"/validate">>,
                         body |-> Marshal(sj),
                         contentType |-> "application/json",
                         authorization |-> NoAuth ] >>
    /\ outstanding = {"validate"}
    /\ publishResponse = NoPublishResponse
    /\ validateResponse = NoValidateResponse
    /\ publishResult = NoPublishResult
    /\ validateResult = NoValidateResult
    /\ formatted = NoFormatted
    /\ stdout = << >>
    /\ exit = "running"
    /\ err = << >>

\* the handler: validate the body and answer with the result
HandleValidate ==
    /\ cmd = "serve" /\ pc = "handle"
    /\ \E result \in ValidateServerJSON(Unmarshal(requests[1].body)) :
         validateResponse' =
           [kind |-> "http", status |-> HandlerStatus(result), readOK |-> TRUE,
            decodable |-> TRUE, result |-> result]
    /\ outstanding' = {}
    /\ pc' = "done"
    /\ UNCHANGED <<env, formatted, serverData, serverJSON, token, registryURL,
                   requests, publishResponse, publishResult, validateResult,
                   stdout, exit, err>>

NextServer == HandleValidate

SpecServer == InitServer /\ [][NextServer]_vars

(***************************************************************************)
(* Properties                                                              *)
(***************************************************************************)
Done == pc = "done"
Count(endpoint) ==
    Cardinality({i \in DOMAIN requests : requests[i].endpoint = endpoint})
\* the publish request was answered with a failure of HTTP status 422
PublishFailed422 ==
    /\ cmd = "publish"
    /\ publishResponse.kind = "http"
    /\ publishResponse.status = 422
\* the fallback validate call returned a result (no error)
ValidateReturned == validateResponse.kind # "none" /\ validateResult.ok
\* the fallback validate call was made and returned an error
ValidateErrored == validateResponse.kind # "none" /\ ~validateResult.ok

SchemaReferences ==
    {"schema-field-required", "schema-version-deprecated",
     "schema-version-extraction-error"}
\* index of the first issue with a schema-class reference, 0 when there is none
FirstSchemaIssue(issues) ==
    IF \E i \in DOMAIN issues : issues[i].reference \in SchemaReferences
    THEN CHOOSE i \in DOMAIN issues :
           /\ issues[i].reference \in SchemaReferences
           /\ \A j \in 1..(i - 1) : issues[j].reference \notin SchemaReferences
    ELSE 0

\* C1: in PublishCommand a validate request is sent only after the publish
\* request came back with HTTP status 422; after a success, any other status
\* or a transport error (status 0) no validate request is ever sent.
C1_ValidateOnlyAfter422 ==
    cmd = "publish" =>
      /\ (Count("validate") > 0 \/ pc \in {"validate_call", "validate_wait"}) =>
           /\ publishResponse.kind = "http" /\ publishResponse.status = 422
           /\ ~publishResult.ok /\ publishResult.status = 422
           /\ "publish" \notin outstanding
      /\ (publishResponse.kind # "none" /\ publishResponse.status # 422) =>
           /\ Count("validate") = 0
           /\ Done

C1_Witness ==
    /\ PublishFailed422 /\ Count("validate") = 1 /\ Count("publish") = 1
    /\ requests[2].endpoint = "validate"

C1_WitnessNon422 ==
    /\ cmd = "publish" /\ Done /\ publishResponse.status = 401
    /\ Count("validate") = 0

\* C2 as stated: after a 422 on publish, validate is requested exactly once
\* and the final error contains the message text of the first issue of the
\* validation result.
C2_Original ==
    (PublishFailed422 /\ Done) =>
      /\ Count("validate") = 1
      /\ (ValidateReturned /\ Len(validateResult.result.issues) > 0) =>
           Contains(err, validateResult.result.issues[1].message)

\* C2 amended: after a 422 on publish, validate is requested exactly once, and
\* when the result is invalid and the first issue carrying a schema-class
\* reference is schema-version-deprecated or schema-version-extraction-error,
\* the final error contains that issue's message text.
C2_FirstSchemaIssueMessage ==
    (PublishFailed422 /\ Done) =>
      /\ Count("validate") = 1
      /\ requests[2].endpoint = "validate"
      /\ exit = "failure"
      /\ LET issues == validateResult.result.issues
             k == FirstSchemaIssue(issues) IN
         (/\ ValidateReturned /\ ~validateResult.result.valid
          /\ k # 0
          /\ issues[k].reference \in {"schema-version-deprecated",
                                      "schema-version-extraction-error"})
           => Contains(err, issues[k].message)

C2_Witness ==
    /\ PublishFailed422 /\ Done /\ ValidateReturned
    /\ ~validateResult.result.valid
    /\ Len(validateResult.result.issues) = 2
    /\ validateResult.result.issues[1].reference = "semantic-version-range"
    /\ validateResult.result.issues[2].reference = "schema-version-deprecated"
    /\ validateResult.result.issues[1].message # validateResult.result.issues[2].message
    /\ Contains(err, validateResult.result.issues[2].message)
    /\ Count("validate") = 1

\* C3: when publish fails with 422 and the fallback validate call returns a
\* result with valid == true, PublishCommand returns the generic
\* "validation failed" error and not the original publish error.
C3_ValidTrueGenericError ==
    (PublishFailed422 /\ Done /\ ValidateReturned /\ validateResult.result.valid) =>
      /\ exit = "failure"
      /\ err = ValidationFailedLit
      /\ err # PublishFailed(publishResult.err)

\* C4 as stated: when publish fails with 422 and the fallback validate call
\* errors, the returned error is the original publish error, prefixed
\* "publish failed" and carrying the status 422 and the publish response body.
C4_Original ==
    (PublishFailed422 /\ Done /\ ValidateErrored) =>
      /\ exit = "failure"
      /\ err = PublishFailed(publishResult.err)
      /\ HasPrefix(err, PublishFailedLit)
      /\ Contains(err, <<"422">>)
      /\ Contains(err, publishResponse.body.raw)

\* C4 amended: when publish fails with 422 and the fallback validate call
\* errors, the returned error is the original publish error prefixed
\* "publish failed"; it carries the status 422 and the publish response body
\* when that body was read and the body-read error otherwise; the validate
\* error never replaces it.
C4_OriginalPublishError ==
    (PublishFailed422 /\ Done /\ ValidateErrored) =>
      /\ exit = "failure"
      /\ err = PublishFailed(publishResult.err)
      /\ HasPrefix(err, PublishFailedLit)
      /\ ~HasPrefix(err, ValidationFailedLit)
      /\ IF publishResponse.readOK
         THEN /\ Contains(err, <<"422">>)
              /\ Contains(err, publishResponse.body.raw)
              /\ err = PublishFailed(StatusError(422, publishResponse.body))
         ELSE err = PublishFailed(ReadResponseError)

C4_Witness ==
    /\ PublishFailed422 /\ Done /\ ValidateErrored
    /\ publishResponse.readOK
    /\ validateResponse.kind = "http" /\ validateResponse.status = 500
    /\ Contains(err, <<"422">>)

\* C5: when publish fails with 422 and the fallback validate reports
\* valid == false, the returned error is exactly the formatter's aggregated
\* message when that is non-empty (a schema-class issue was matched) and the
\* generic "validation failed" otherwise; never the original publish error.
C5_InvalidResultError ==
    (PublishFailed422 /\ Done /\ ValidateReturned /\ ~validateResult.result.valid) =>
      LET agg == printSchemaValidationErrors(validateResult.result, serverJSON).msg IN
      /\ exit = "failure"
      /\ (agg # << >>) <=> (FirstSchemaIssue(validateResult.result.issues) # 0)
      /\ (agg # << >> => err = agg)
      /\ (agg = << >> => err = ValidationFailedLit)
      /\ err # PublishFailed(publishResult.err)
      /\ ~Contains(err, PublishFailedLit)

C5_Witness ==
    /\ PublishFailed422 /\ Done /\ ValidateReturned
    /\ ~validateResult.result.valid
    /\ Len(validateResult.result.issues) = 1
    /\ validateResult.result.issues[1].reference = "semantic-version-range"
    /\ err = ValidationFailedLit

C5_WitnessSchema ==
    /\ PublishFailed422 /\ Done /\ ValidateReturned
    /\ ~validateResult.result.valid
    /\ FirstSchemaIssue(validateResult.result.issues) = 2
    /\ Contains(err, MigrationChecklistLit)

\* C6: one command invocation makes at most two HTTP round trips: at most one
\* publish request and at most one validate request, the publish request
\* strictly before the validate request, never two requests outstanding at
\* once, and no publish request after the validate fallback.
C6_AtMostTwoSequentialRequests ==
    /\ Count("publish") <= 1
    /\ Count("validate") <= 1
    /\ Len(requests) <= 2
    /\ \A i, j \in DOMAIN requests :
         (requests[i].endpoint = "publish" /\ requests[j].endpoint = "validate")
           => i < j
    /\ Cardinality(outstanding) <= 1
    /\ Cardinality(outstanding) <= Len(requests)
    /\ (Count("validate") > 0 => "publish" \notin outstanding)
    /\ (cmd = "publish" /\ Len(requests) > 0 => requests[1].endpoint = "publish")

C6_Witness ==
    /\ cmd = "publish" /\ Done /\ Len(requests) = 2
    /\ requests[1].endpoint = "publish" /\ requests[2].endpoint = "validate"
    /\ outstanding = {}

C6_WitnessOutstanding ==
    /\ cmd = "publish" /\ outstanding = {"validate"} /\ Len(requests) = 2

\* C7: PublishCommand returns success only if the publish request was answered
\* 200 or 201 with a decodable body; every run that enters the validate
\* fallback ends in failure whatever the validate result, and a 200/201 answer
\* with an undecodable body ends in failure without a validate request.
C7_SuccessOnlyOnAcceptedPublish ==
    cmd = "publish" =>
      /\ exit = "success" =>
           /\ publishResponse.kind = "http"
           /\ publishResponse.status \in {200, 201}
           /\ publishResponse.readOK
           /\ publishResponse.body.form # "text"
           /\ Count("publish") = 1
           /\ Count("validate") = 0
      /\ (PublishFailed422 \/ Count("validate") > 0) => exit # "success"
      /\ (Done /\ (PublishFailed422 \/ Count("validate") > 0)) => exit = "failure"
      /\ (/\ publishResponse.kind = "http"
          /\ publishResponse.status \in {200, 201}
          /\ publishResponse.readOK
          /\ publishResponse.body.form = "text")
           => (Done /\ exit = "failure" /\ Count("validate") = 0)

C7_Witness ==
    /\ cmd = "publish" /\ exit = "success"
    /\ publishResponse.status = 201 /\ publishResponse.body.form = "server"

C7_WitnessFallbackValid ==
    /\ PublishFailed422 /\ Done /\ ValidateReturned
    /\ validateResult.result.valid /\ exit = "failure"

C7_WitnessUndecodable ==
    /\ cmd = "publish" /\ Done /\ publishResponse.status = 200
    /\ publishResponse.readOK /\ publishResponse.body.form = "text"
    /\ exit = "failure"

\* C8 as stated: when no token store exists, PublishCommand fails with a
\* message containing "not authenticated" and makes no network call.
C8_Original ==
    (cmd = "publish" /\ tokenFile.state = "missing") =>
      /\ Len(requests) = 0
      /\ Done => (exit = "failure" /\ Contains(err, NotAuthenticatedLit))

\* C8 amended: when no token store exists, PublishCommand makes no network
\* call and fails; once the descriptor file was read and parsed and the home
\* directory resolved, it fails at the token load with a message containing
\* "not authenticated".
C8_NotAuthenticated ==
    (cmd = "publish" /\ tokenFile.state = "missing") =>
      /\ Len(requests) = 0
      /\ outstanding = {}
      /\ pc \in {"start", "load_token", "done"}
      /\ Done => exit = "failure"
      /\ (Done /\ serverFile.state = "ok" /\ homeDirOK) =>
           Contains(err, NotAuthenticatedLit)

C8_Witness ==
    /\ cmd = "publish" /\ tokenFile.state = "missing" /\ Done
    /\ serverFile.state = "ok" /\ homeDirOK
    /\ exit = "failure" /\ Contains(err, NotAuthenticatedLit)
    /\ Len(requests) = 0

\* the command opens the descriptor file (validate --help returns before)
ReadsServerFile == cmd = "publish" \/ ~helpArg

\* C9: in both commands an input error (descriptor file missing, unreadable
\* or malformed JSON) ends the command at the read with a failure and no
\* network call; ValidateCommand's error contains "not found" for a missing
\* file and "invalid JSON" for a malformed one.
C9_InputErrorsReportedImmediately ==
    (ReadsServerFile /\ serverFile.state # "ok") =>
      /\ Len(requests) = 0
      /\ outstanding = {}
      /\ pc \in {"start", "read_file", "done"}
      /\ Done =>
           /\ exit = "failure"
           /\ err # << >>
           /\ serverData = NoData
           /\ (serverFile.state = "missing" => Contains(err, NotFoundLit))
           /\ (cmd = "validate" /\ serverFile.state = "malformed")
                => Contains(err, InvalidJSONLit)
           /\ (cmd = "publish" /\ serverFile.state = "malformed")
                => Contains(err, <<"invalid server.json">>)

C9_Witness ==
    /\ cmd = "validate" /\ Done /\ serverFile.state = "malformed"
    /\ exit = "failure" /\ Contains(err, InvalidJSONLit)
    /\ Len(requests) = 0

C9_WitnessPublishMissing ==
    /\ cmd = "publish" /\ Done /\ serverFile.state = "missing"
    /\ exit = "failure" /\ Len(requests) = 0

\* C10 as stated: ValidateCommand never sends a publish request, and once its
\* inputs were read it sends exactly one validate request and nothing else.
C10_Original ==
    cmd = "validate" =>
      /\ Count("publish") = 0
      /\ (Done /\ serverData # NoData /\ homeDirOK) =>
           (Count("validate") = 1 /\ Len(requests) = 1)

\* C10 amended: ValidateCommand never sends a publish request and at most one
\* validate request; once its inputs were read it sends exactly one validate
\* request when the registry URL yields a parseable request URL and none
\* otherwise; a --help invocation sends nothing.
C10_ValidateNeverPublishes ==
    cmd = "validate" =>
      /\ Count("publish") = 0
      /\ Count("validate") <= 1
      /\ Len(requests) = Count("validate")
      /\ (helpArg => Len(requests) = 0)
      /\ (Done /\ serverData # NoData /\ homeDirOK) =>
           Count("validate") = (IF URLParses(ValidateURL(registryURL)) THEN 1 ELSE 0)

C10_Witness ==
    /\ cmd = "validate" /\ Done /\ serverData # NoData
    /\ Count("validate") = 1 /\ Len(requests) = 1
    /\ exit = "success"

C10_WitnessMalformedURL ==
    /\ cmd = "validate" /\ Done /\ serverData # NoData /\ homeDirOK
    /\ registryURL = MalformedURL /\ Len(requests) = 0

\* C11: a ValidateCommand run that was asked to validate (not --help) returns
\* success if and only if validateViaAPI returned a result and the result is
\* valid, whatever its issue list holds; an invalid result yields the
\* aggregated schema message when the result has a schema issue and
\* "validation failed" otherwise, the empty issue list included
C11_ValidateSuccessIffValid ==
    (cmd = "validate" /\ ~helpArg /\ Done) =>
      /\ (exit = "success") <=> (validateResult.ok /\ validateResult.result.valid)
      /\ (validateResult.ok /\ ~validateResult.result.valid) =>
           IF FirstSchemaIssue(validateResult.result.issues) # 0
           THEN err = formatted.msg /\ err # << >>
           ELSE err = ValidationFailedLit

\* a valid result with a warning issue: success
C11_Witness ==
    /\ cmd = "validate" /\ Done /\ exit = "success"
    /\ validateResult.ok /\ validateResult.result.valid
    /\ \E i \in DOMAIN validateResult.result.issues :
         validateResult.result.issues[i].severity = "warning"

\* an invalid result with no issue at all: "validation failed"
C11_WitnessEmptyInvalid ==
    /\ cmd = "validate" /\ Done /\ exit = "failure"
    /\ validateResult.ok /\ ~validateResult.result.valid
    /\ validateResult.result.issues = << >>
    /\ err = ValidationFailedLit

\* an invalid result with a schema issue: the aggregated schema message
C11_WitnessSchemaMessage ==
    /\ cmd = "validate" /\ Done /\ exit = "failure"
    /\ validateResult.ok /\ ~validateResult.result.valid
    /\ Contains(err, MigrationChecklistLit)

\* the issue the first pass rendered, when there is one
MatchedIssue == validateResult.result.issues[formatted.matched]

\* C12: the aggregated error string the formatter produces for a schema issue
\* contains the issue's message text and the literals "Migration checklist:"
\* and "Full changelog with examples:"
C12_SchemaMessageHasIssueText ==
    (validateResult.ok /\ formatted.matched # 0) =>
      /\ MatchedIssue.reference \in SchemaReferences
      /\ Contains(formatted.msg, MatchedIssue.message)
      /\ Contains(formatted.msg, MigrationChecklistLit)
      /\ Contains(formatted.msg, FullChangelogLit)

\* what holds of the aggregated string: the two literals for every schema
\* issue, the message text for the deprecated and extraction-error references
C12_LiteralsAlways ==
    (validateResult.ok /\ formatted.matched # 0) =>
      /\ MatchedIssue.reference \in SchemaReferences
      /\ Contains(formatted.msg, MigrationChecklistLit)
      /\ Contains(formatted.msg, FullChangelogLit)
      /\ MatchedIssue.reference # "schema-field-required" =>
           Contains(formatted.msg, MatchedIssue.message)

\* the formatter printed the header of the numbered list
ListHeaderPrinted ==
    \E i \in DOMAIN formatted.out :
       HasPrefix(formatted.out[i], <<"[x] Validation failed with ">>)

\* C13 as stated: for a valid result the formatter runs only the first pass,
\* prints no numbered list, and the string it returns is empty
C13_Original ==
    (validateResult.ok /\ validateResult.result.valid) =>
      /\ ~formatted.list /\ formatted.listed = << >> /\ ~ListHeaderPrinted
      /\ formatted.msg = << >>

\* C13 amended: for a valid result the formatter runs only the first pass and
\* prints no numbered list; the string it returns is the first pass's, empty
\* exactly when the result has no issue with a schema reference, and
\* ValidateCommand does not return it as an error
C13_ValidOnlyFirstPass ==
    (validateResult.ok /\ validateResult.result.valid) =>
      /\ ~formatted.list /\ formatted.listed = << >> /\ ~ListHeaderPrinted
      /\ formatted.out = printSchemaValidationErrors(validateResult.result, serverJSON).out
      /\ (formatted.msg = << >>) <=> (FirstSchemaIssue(validateResult.result.issues) = 0)
      /\ (cmd = "validate") => (exit = "success" /\ err = << >>)

\* a valid result with a deprecation warning: first pass only, a non-empty
\* string returned, and success
C13_Witness ==
    /\ cmd = "validate" /\ Done /\ exit = "success"
    /\ validateResult.ok /\ validateResult.result.valid
    /\ formatted.matched # 0
    /\ MatchedIssue.reference = "schema-version-deprecated"
    /\ MatchedIssue.severity = "warning"
    /\ Contains(formatted.msg, DeprecatedLit)
    /\ formatted.out # << >> /\ ~formatted.list

\* the indices of the issues rendered by the second pass
ListedIdx == { formatted.listed[k].idx : k \in DOMAIN formatted.listed }

\* the indices of the schema issues rendered by either pass
RenderedSchemaIssues ==
    { i \in DOMAIN validateResult.result.issues :
        /\ validateResult.result.issues[i].reference \in SchemaReferences
        /\ (i = formatted.matched \/ i \in ListedIdx) }

\* C14 as stated: across both passes at most one schema issue is rendered,
\* and it is the first schema issue in server order
C14_Original ==
    validateResult.ok =>
      /\ Cardinality(RenderedSchemaIssues) <= 1
      /\ RenderedSchemaIssues \subseteq {FirstSchemaIssue(validateResult.result.issues)}

\* C14 amended: the first pass renders at most one schema issue, the first in
\* server order; the second pass renders no schema-field-required and no
\* schema-version-deprecated issue, and renders every
\* schema-version-extraction-error issue of an invalid result
C14_FirstPassRendersFirstSchemaIssue ==
    validateResult.ok =>
      LET issues == validateResult.result.issues IN
      /\ formatted.matched = FirstSchemaIssue(issues)
      /\ \A i \in ListedIdx :
           issues[i].reference \notin {"schema-field-required", "schema-version-deprecated"}
      /\ \A i \in DOMAIN issues :
           (formatted.list /\ issues[i].reference = "schema-version-extraction-error")
             => i \in ListedIdx

\* a deprecated issue followed by an extraction-error issue: the first pass
\* renders the first and the second pass lists the second
C14_Witness ==
    /\ validateResult.ok /\ ~validateResult.result.valid
    /\ Len(validateResult.result.issues) = 2
    /\ validateResult.result.issues[1].reference = "schema-version-deprecated"
    /\ validateResult.result.issues[2].reference = "schema-version-extraction-error"
    /\ formatted.matched = 1
    /\ ListedIdx = {2}
    /\ Cardinality(RenderedSchemaIssues) = 2

\* issue i was printed by the first pass: the pass matched it and wrote lines
\* (the extraction-error case builds its message without printing)
PrintedByFirstPass(i) ==
    /\ i = formatted.matched
    /\ printSchemaValidationErrors(validateResult.result, serverJSON).out # << >>

\* C15: in the second pass an issue is skipped if and only if it is a schema
\* issue the first pass already rendered, and no issue is rendered in both
C15_SkippedIffRenderedInFirstPass ==
    (validateResult.ok /\ formatted.list) =>
      \A i \in DOMAIN validateResult.result.issues :
        /\ (i \notin ListedIdx) <=> PrintedByFirstPass(i)
        /\ ~(i \in ListedIdx /\ PrintedByFirstPass(i))

\* what holds of the second pass: no issue is printed by both passes, and an
\* issue is skipped exactly when its reference is schema-field-required or
\* schema-version-deprecated
C15_NoIssuePrintedTwice ==
    (validateResult.ok /\ formatted.list) =>
      \A i \in DOMAIN validateResult.result.issues :
        /\ ~(i \in ListedIdx /\ PrintedByFirstPass(i))
        /\ (i \notin ListedIdx) <=>
             validateResult.result.issues[i].reference
               \in {"schema-field-required", "schema-version-deprecated"}

\* the issues with everything but severity and reference blanked
ReferenceOnly(issues) ==
    [ i \in DOMAIN issues |->
        [type |-> "", path |-> "", message |-> << >>,
         severity |-> issues[i].severity, reference |-> issues[i].reference] ]

\* the issues a formatter run chose: the one its first pass matched and the
\* indices and numbers of the entries of its second pass
Dispatch(f) ==
    [ matched |-> f.matched, list |-> f.list,
      listed |-> [k \in DOMAIN f.listed |-> <<f.listed[k].idx, f.listed[k].num>>] ]

\* C16: which issue the first pass matches and which issues the second pass
\* lists depend on the references only, not on type, path or message; an issue
\* of an invalid result whose reference is unknown or empty is listed as a
\* numbered entry showing its severity, path, type and message
C16_DispatchByReferenceOnly ==
    (cmd = "format" /\ Done) =>
      LET result == validateResult.result
          issues == result.issues
          blank  == [valid |-> result.valid, issues |-> ReferenceOnly(issues)] IN
      /\ Dispatch(formatted) = Dispatch(printValidationIssues(blank, serverJSON))
      /\ formatted.matched = FirstSchemaIssue(issues)
      /\ ~result.valid =>
           \A i \in DOMAIN issues :
             issues[i].reference \notin SchemaReferences =>
               \E k \in DOMAIN formatted.listed :
                 /\ formatted.listed[k].idx = i
                 /\ formatted.listed[k].lines = IssueEntry(formatted.listed[k].num, issues[i])
                 /\ Contains(stdout, formatted.listed[k].lines)

\* an issue of type schema with an empty reference is listed, and an issue of
\* type semantic with reference schema-field-required is matched
C16_Witness ==
    /\ cmd = "format" /\ Done /\ ~validateResult.result.valid
    /\ Len(validateResult.result.issues) = 2
    /\ validateResult.result.issues[1].reference = ""
    /\ validateResult.result.issues[1].type = "schema"
    /\ validateResult.result.issues[1].path = "schema"
    /\ validateResult.result.issues[2].reference = "schema-field-required"
    /\ validateResult.result.issues[2].type = "semantic"
    /\ formatted.matched = 2
    /\ ListedIdx = {1}

\* C17: validateViaAPI returns a result, and no error, only for a response
\* of status 200 whose body was read and decodes; every other status is an
\* error; a decoded result is returned as it is, valid or not
C17_ValidateResultOnlyOn200 ==
    (validateResponse.kind # "none") =>
      /\ validateResult.ok <=>
           (/\ validateResponse.kind = "http" /\ validateResponse.status = StatusOK
            /\ validateResponse.readOK /\ validateResponse.decodable)
      /\ validateResult.ok =>
           (validateResult.result = validateResponse.result /\ validateResult.err = << >>)
      /\ ~validateResult.ok =>
           (validateResult.result = NoResult /\ validateResult.err # << >>)

\* a result with valid == false is returned without error
C17_Witness ==
    /\ validateResponse.kind = "http" /\ validateResponse.status = StatusOK
    /\ validateResult.ok /\ validateResult.err = << >>
    /\ ~validateResult.result.valid
    /\ validateResult.result.issues # << >>

\* a decodable body under status 201 is an error
C17_WitnessCreated ==
    /\ validateResponse.kind = "http" /\ validateResponse.status = StatusCreated
    /\ validateResponse.readOK /\ validateResponse.decodable
    /\ ~validateResult.ok
    /\ Contains(validateResult.err, <<"server returned status ", ToString(StatusCreated)>>)

\* the publish request was answered with a status other than 200 and 201
PublishRejected ==
    /\ cmd = "publish"
    /\ publishResponse.kind = "http"
    /\ publishResponse.status \notin {StatusOK, StatusCreated}

\* C18 as stated: for a publish status other than 200 and 201 the client call
\* returns an error with that status code and a text containing the status
\* code and the raw response body; for a non-422 status the final error of
\* PublishCommand contains "publish failed" plus that status and body
C18_Original ==
    PublishRejected =>
      LET code == <<ToString(publishResponse.status)>> IN
      /\ ~publishResult.ok
      /\ publishResult.status = publishResponse.status
      /\ Contains(publishResult.err, code)
      /\ Contains(publishResult.err, publishResponse.body.raw)
      /\ publishResponse.status # StatusUnprocessableEntity =>
           /\ Done /\ exit = "failure"
           /\ Contains(err, PublishFailedLit)
           /\ Contains(err, code)
           /\ Contains(err, publishResponse.body.raw)

\* C18 amended: for a publish status other than 200 and 201 the client call
\* returns an error with that status code; when the response body was read the
\* text is "server returned status <code>: <body>", otherwise it is the
\* body-read error; for a non-422 status the final error of PublishCommand is
\* "publish failed: " followed by that text
C18_RejectionCarriesStatus ==
    PublishRejected =>
      /\ ~publishResult.ok
      /\ publishResult.status = publishResponse.status
      /\ publishResult.err =
           IF publishResponse.readOK
           THEN <<"server returned status ", ToString(publishResponse.status), ": ">>
                  \o publishResponse.body.raw
           ELSE ReadResponseError
      /\ publishResponse.status # StatusUnprocessableEntity =>
           /\ Done /\ exit = "failure"
           /\ Count("validate") = 0
           /\ err = PublishFailedLit \o <<": ">> \o publishResult.err

\* a 401 whose body was read: the final error has the status and the body
C18_Witness ==
    /\ PublishRejected /\ Done
    /\ publishResponse.status = StatusUnauthorized /\ publishResponse.readOK
    /\ HasPrefix(err, PublishFailedLit)
    /\ Contains(err, <<ToString(StatusUnauthorized)>>)
    /\ Contains(err, <<"Unauthorized">>)

\* a 500 whose body could not be read
C18_WitnessUnread ==
    /\ PublishRejected /\ Done
    /\ publishResponse.status = StatusInternalServerError /\ ~publishResponse.readOK
    /\ publishResult.status = StatusInternalServerError
    /\ err = PublishFailed(ReadResponseError)

\* the token store is missing, unreadable, unparseable or records no registry
NoRegistryInTokenStore == tokenFile.state # "ok" \/ tokenFile.registry = << >>

\* C19: without a token store that records a registry URL, a ValidateCommand
\* run that has read its descriptor and the home directory does not fail at
\* the token store: it sends one validate request, to the default registry
\* URL and without an Authorization header, and fails only on the answer
C19_ValidateWithoutTokenStore ==
    (/\ cmd = "validate" /\ NoRegistryInTokenStore
     /\ serverData # NoData /\ homeDirOK /\ pc # "resolve_registry") =>
      /\ registryURL = DefaultRegistryURL
      /\ pc # "validate_call" =>
           /\ Len(requests) = 1
           /\ requests[1].endpoint = "validate"
           /\ requests[1].url = ValidateURL(DefaultRegistryURL)
           /\ requests[1].authorization = NoAuth
      /\ exit = "failure" => validateResponse.kind # "none"

\* no token store at all, and the validation succeeds
C19_Witness ==
    /\ cmd = "validate" /\ tokenFile.state = "missing"
    /\ Done /\ exit = "success"
    /\ Len(requests) = 1
    /\ requests[1].url = ValidateURL(DefaultRegistryURL)
    /\ requests[1].authorization = NoAuth

\* a token store that does not parse
C19_WitnessMalformed ==
    /\ cmd = "validate" /\ tokenFile.state = "malformed"
    /\ pc = "validate_wait"
    /\ requests[1].url = ValidateURL(DefaultRegistryURL)

\* the publish request was answered with status 200 or 201
PublishAccepted ==
    /\ cmd = "publish"
    /\ publishResponse.kind = "http"
    /\ publishResponse.status \in {StatusOK, StatusCreated}

\* the line reporting name and version
ReportLine(name, version) == << <<"Server ", name, " version ", version>> >>

\* C20 as stated: when publish returns 200 or 201, PublishCommand succeeds
\* with no further call and reports the submitted descriptor's name and version
C20_Original ==
    PublishAccepted =>
      /\ Done /\ exit = "success"
      /\ Len(requests) = 1
      /\ Contains(stdout, ReportLine(serverJSON.name, serverJSON.version))

\* C20 amended: when publish returns 200 or 201 no further call is made; with
\* a body that is read and decodes the command succeeds and reports the name
\* and version of the response, which are the submitted ones when the registry
\* echoes the descriptor; otherwise it fails
C20_AcceptedPublishReportsResponse ==
    PublishAccepted =>
      /\ Done
      /\ Len(requests) = 1 /\ requests[1].endpoint = "publish"
      /\ IF publishResponse.readOK /\ publishResponse.body.form # "text"
         THEN /\ exit = "success"
              /\ Len(stdout) >= 2
              /\ SubSeq(stdout, Len(stdout) - 1, Len(stdout))
                   = PublishedLines(publishResponse.body)
              /\ Contains(stdout, ReportLine(publishResponse.body.name,
                                             publishResponse.body.version))
              /\ (/\ publishResponse.body.name = serverJSON.name
                  /\ publishResponse.body.version = serverJSON.version)
                   => Contains(stdout, ReportLine(serverJSON.name, serverJSON.version))
         ELSE exit = "failure"

\* the registry echoes the submitted descriptor
C20_Witness ==
    /\ PublishAccepted /\ Done /\ exit = "success"
    /\ publishResponse.body.form = "server"
    /\ publishResponse.body.name = serverJSON.name
    /\ publishResponse.body.version = serverJSON.version
    /\ Contains(stdout, ReportLine(serverJSON.name, serverJSON.version))

\* the registry answers with another name: the answer's name is reported
C20_WitnessOtherName ==
    /\ PublishAccepted /\ Done /\ exit = "success"
    /\ publishResponse.body.form = "server"
    /\ publishResponse.body.name # serverJSON.name
    /\ ~Contains(stdout, ReportLine(serverJSON.name, serverJSON.version))

\* C21: the second of two validateViaAPI calls with the same descriptor bytes
\* returns what the first returned and sends the same request body, and the
\* descriptor bytes are those read from the file throughout
C21_ValidateTwiceSameResult ==
    [][ cmd = "validate_twice" =>
          /\ serverData' = serverData /\ serverData' = serverFile.data
          /\ pc' = "done" =>
               /\ validateResult' = validateResult
               /\ Len(requests') = 2 => requests'[2].body = requests'[1].body ]_vars

\* both calls were answered with the same invalid result
C21_Witness ==
    /\ cmd = "validate_twice" /\ Done
    /\ Len(requests) = 2
    /\ requests[1].body = requests[2].body
    /\ serverData.layout = "indented"
    /\ validateResult.ok /\ ~validateResult.result.valid
    /\ validateResult.result.issues # << >>

\* the other severity
OtherSeverity(s) == IF s = "warning" THEN "error" ELSE "warning"

\* C22: when the issue the first pass matched has reference
\* schema-version-deprecated, the aggregated error contains "deprecated schema
\* detected", "Migration checklist:" and "Full changelog with examples:" for
\* both severities; the severity changes the printed notice only, the
\* aggregated string is the one the other severity gives
C22_DeprecatedMessageAnySeverity ==
    (/\ validateResult.ok /\ formatted.matched # 0
     /\ MatchedIssue.reference = "schema-version-deprecated") =>
      LET other == SchemaVersionDeprecatedCase(
                     [MatchedIssue EXCEPT !.severity = OtherSeverity(@)], serverJSON) IN
      /\ Contains(formatted.msg, DeprecatedLit)
      /\ Contains(formatted.msg, MigrationChecklistLit)
      /\ Contains(formatted.msg, FullChangelogLit)
      /\ formatted.msg = other.msg
      /\ SubSeq(formatted.out, 1, Len(other.out)) # other.out
      /\ Tail(SubSeq(formatted.out, 1, Len(other.out))) = Tail(other.out)

\* the publish fallback finds a warning-severity deprecation issue in an
\* invalid result: the command fails with the three literals in its error
C22_Witness ==
    /\ PublishFailed422 /\ Done /\ exit = "failure"
    /\ Count("publish") = 1 /\ Count("validate") = 1
    /\ validateResult.ok /\ ~validateResult.result.valid
    /\ formatted.matched = 1
    /\ MatchedIssue.reference = "schema-version-deprecated"
    /\ MatchedIssue.severity = "warning"
    /\ Contains(err, DeprecatedLit)
    /\ Contains(err, MigrationChecklistLit)
    /\ Contains(err, FullChangelogLit)

\* the same with error severity
C22_WitnessError ==
    /\ validateResult.ok /\ formatted.matched # 0
    /\ MatchedIssue.reference = "schema-version-deprecated"
    /\ MatchedIssue.severity = "error"
    /\ Contains(formatted.msg, DeprecatedLit)

\* C23: the validate endpoint answers every well-formed descriptor with
\* status 200, whether the result is valid or not; invalidity shows only as
\* valid == false in the body
C23_ValidateEndpointAlways200 ==
    (cmd = "serve" /\ Done) =>
      /\ validateResponse.kind = "http"
      /\ validateResponse.status = StatusOK
      /\ validateResponse.decodable
      /\ validateResponse.result \in ValidationResult

\* an invalid descriptor (a version range) answered 200 with valid == false
C23_Witness ==
    /\ cmd = "serve" /\ Done
    /\ Unmarshal(requests[1].body).version = "^1.0.0"
    /\ validateResponse.status = StatusOK
    /\ ~validateResponse.result.valid
    /\ Len(validateResponse.result.issues) > 0
    /\ validateResponse.result.issues[1].reference = "semantic-version-range"
    /\ validateResponse.result.issues[1].severity = "error"

\* C24: the fallback validate request of PublishCommand is built from the
\* descriptor bytes and the registry URL the publish request was built from:
\* the two request bodies are equal, and the bytes are those read from the file
C24_FallbackSameDescriptor ==
    (cmd = "publish" /\ Count("validate") > 0) =>
      /\ Len(requests) = 2
      /\ requests[1].endpoint = "publish" /\ requests[2].endpoint = "validate"
      /\ requests[2].body = requests[1].body
      /\ requests[1].body = Marshal(Unmarshal(serverFile.data))
      /\ requests[1].url = PublishURL(registryURL)
      /\ requests[2].url = ValidateURL(registryURL)
      /\ serverData = serverFile.data
      /\ serverJSON = Unmarshal(serverFile.data)

\* an indented descriptor file: both requests carry its canonical encoding
C24_Witness ==
    /\ PublishFailed422 /\ Done
    /\ Len(requests) = 2
    /\ serverFile.data.layout = "indented"
    /\ requests[2].body = requests[1].body
    /\ requests[2].body.layout = "compact"
    /\ registryURL \in CustomURLs

\* the indices of the issues the second pass does not skip
KeptIdx ==
    { i \in DOMAIN validateResult.result.issues :
        validateResult.result.issues[i].reference
          \notin {"schema-field-required", "schema-version-deprecated"} }

\* C25: for an invalid result the second pass prints the issues whose
\* reference is neither schema-field-required nor schema-version-deprecated,
\* all of them, in server order, numbered 1..k without gap or repeat; equal
\* issues are printed as often as they occur
C25_ListNumberedInServerOrder ==
    (cmd = "format" /\ Done /\ ~validateResult.result.valid) =>
      LET issues == validateResult.result.issues
          listed == formatted.listed
          k == Cardinality(KeptIdx) IN
      /\ formatted.list
      /\ Len(listed) = k
      /\ \A n \in 1..k :
           /\ listed[n].num = n
           /\ listed[n].idx \in KeptIdx
           /\ listed[n].lines[1][1] = ToString(n)
           /\ listed[n].lines[1][3] = issues[listed[n].idx].severity
           /\ listed[n].lines[2] = <<"   ">> \o issues[listed[n].idx].message
           /\ \A m \in 1..(n - 1) : listed[m].idx < listed[n].idx
      /\ formatted.out = printSchemaValidationErrors(validateResult.result, serverJSON).out
                           \o ListHeader(validateResult.result) \o EntryLines(listed)

\* the same issue twice: two entries, numbered 1 and 2
C25_Witness ==
    /\ cmd = "format" /\ Done /\ ~validateResult.result.valid
    /\ Len(validateResult.result.issues) = 2
    /\ validateResult.result.issues[1] = validateResult.result.issues[2]
    /\ validateResult.result.issues[1].reference = "semantic-version-range"
    /\ Len(formatted.listed) = 2
    /\ formatted.listed[2].num = 2 /\ formatted.listed[2].idx = 2

\* a skipped issue first: the next issue is entry 1
C25_WitnessSkipped ==
    /\ cmd = "format" /\ Done /\ ~validateResult.result.valid
    /\ Len(validateResult.result.issues) = 2
    /\ validateResult.result.issues[1].reference = "schema-version-deprecated"
    /\ validateResult.result.issues[2].reference = ""
    /\ Len(formatted.listed) = 1
    /\ formatted.listed[1].num = 1 /\ formatted.listed[1].idx = 2

\* the endpoint suffix of a request
EndpointSuffix(endpoint) == IF endpoint = "publish" THEN "v0/publish" ELSE "v0/validate"

\* C26: the URL of every request is the registry base URL followed by the
\* endpoint suffix, with one "/" inserted between them exactly when the base
\* does not end in "/"; normalizing a normalized base adds nothing
C26_URLNormalization ==
    \A i \in DOMAIN requests :
      LET base == registryURL
          UrlOf == requests[i].url
          n == Len(base) IN
      /\ n > 0
      /\ SubSeq(UrlOf, 1, n) = base
      /\ UrlOf[Len(UrlOf)] = EndpointSuffix(requests[i].endpoint)
      /\ IF base[n] = "/"
         THEN Len(UrlOf) = n + 1
         ELSE Len(UrlOf) = n + 2 /\ UrlOf[n + 1] = "/"
      /\ NormalizeURL(NormalizeURL(base)) = NormalizeURL(base)
      /\ NormalizeURL(base) \o <<EndpointSuffix(requests[i].endpoint)>> = UrlOf

\* a base ending in "/": nothing inserted
C26_Witness ==
    /\ cmd = "publish" /\ Len(requests) = 2
    /\ registryURL = <<"http://127.0.0.1:8080", "/">>
    /\ requests[1].url = <<"http://127.0.0.1:8080", "/", "v0/publish">>
    /\ requests[2].url = <<"http://127.0.0.1:8080", "/", "v0/validate">>

\* a base not ending in "/": one inserted
C26_WitnessInserted ==
    /\ cmd = "validate" /\ Len(requests) = 1
    /\ registryURL = <<"http://127.0.0.1:8080">>
    /\ requests[1].url = <<"http://127.0.0.1:8080", "/", "v0/validate">>

\* Publishing: PublishCommand is at or waiting for the publish call
Publishing == cmd = "publish" /\ pc \in {"publish_call", "publish_wait"}
\* ValidatingFallback: PublishCommand is at or waiting for the validate call
ValidatingFallback == cmd = "publish" /\ pc \in {"validate_call", "validate_wait"}

\* C27: a PublishCommand invocation that is Publishing reaches Done with
\* success or failure; ValidatingFallback is entered at most once and is never
\* followed by Publishing
C27_PublishTerminates ==
    /\ Publishing ~> (Done /\ exit \in {"success", "failure"})
    /\ ValidatingFallback ~> (Done /\ exit = "failure")
    /\ [][ /\ ValidatingFallback => ~Publishing'
           /\ (ValidatingFallback' /\ ~ValidatingFallback) =>
                (Publishing /\ Count("validate") = 0)
           /\ Done => FALSE ]_vars

\* a run that went through the fallback and ended
C27_Witness ==
    /\ cmd = "publish" /\ Done /\ exit = "failure"
    /\ Count("publish") = 1 /\ Count("validate") = 1
    /\ outstanding = {}

\* the token value occurs in the headers or the URL of a request
CarriesToken(req) ==
    \/ req.authorization # NoAuth
    \/ \E i \in DOMAIN req.url : req.url[i] = token

\* C28: the bearer token is attached to the publish request only; no validate
\* request, of ValidateCommand or of the publish fallback, has an
\* Authorization header or the token
C28_TokenOnlyOnPublish ==
    \A i \in DOMAIN requests :
      IF requests[i].endpoint = "publish"
      THEN /\ cmd = "publish"
           /\ requests[i].authorization = <<"Bearer ", token>>
           /\ token = tokenFile.token
      ELSE /\ requests[i].authorization = NoAuth
           /\ ~CarriesToken(requests[i])

\* the fallback validate request of a run that holds a token
C28_Witness ==
    /\ cmd = "publish" /\ token = "test-token"
    /\ Len(requests) = 2
    /\ requests[1].authorization = <<"Bearer ", "test-token">>
    /\ requests[2].endpoint = "validate"
    /\ requests[2].authorization = NoAuth

\* ValidateCommand with a token store present
C28_WitnessValidateCommand ==
    /\ cmd = "validate" /\ tokenFile.state = "ok" /\ tokenFile.token = "test-token"
    /\ Len(requests) = 1
    /\ requests[1].authorization = NoAuth

\* issue i of the result appears in the output: the first pass printed it, or
\* the second pass listed it
Rendered(i) == PrintedByFirstPass(i) \/ i \in ListedIdx

\* C29: every issue of an invalid result is rendered at least once, by the
\* first pass or as a numbered entry of the second pass
C29_EveryIssueRendered ==
    (validateResult.ok /\ formatted.list /\ ~validateResult.result.valid) =>
      \A i \in DOMAIN validateResult.result.issues : Rendered(i)

\* what holds: the issues not rendered are those with reference
\* schema-field-required or schema-version-deprecated after the first schema
\* issue of the result
C29_DroppedIssues ==
    (validateResult.ok /\ formatted.list /\ ~validateResult.result.valid) =>
      \A i \in DOMAIN validateResult.result.issues :
        ~Rendered(i) <=>
          /\ validateResult.result.issues[i].reference
               \in {"schema-field-required", "schema-version-deprecated"}
          /\ i # FirstSchemaIssue(validateResult.result.issues)

\* every request of reqs goes to the endpoint under base
RequestsGoTo(reqs, base) ==
    \A i \in DOMAIN reqs :
      reqs[i].url = NormalizeURL(base) \o <<EndpointSuffix(reqs[i].endpoint)>>

\* C30: in PublishCommand a token store without a registry entry sends the
\* publish request and the fallback validate request to the default registry
\* URL; the registry URL is set once, at the token load, and every request of
\* the invocation goes to it
C30_PublishDefaultRegistry ==
    [][ cmd = "publish" =>
          /\ pc # "load_token" => registryURL' = registryURL
          /\ RequestsGoTo(requests', registryURL')
          /\ (tokenFile.state = "ok" /\ tokenFile.registry = << >>) =>
               /\ RequestsGoTo(requests', DefaultRegistryURL)
               /\ (pc = "load_token" /\ pc' = "publish_call") =>
                    registryURL' = DefaultRegistryURL ]_vars

\* both requests of a run whose token store records no registry
C30_Witness ==
    /\ cmd = "publish" /\ tokenFile.state = "ok" /\ tokenFile.registry = << >>
    /\ Len(requests) = 2
    /\ registryURL = DefaultRegistryURL
    /\ requests[1].url = DefaultRegistryURL \o <<"/", "v0/publish">>
    /\ requests[2].url = DefaultRegistryURL \o <<"/", "v0/validate">>

====
